---- MODULE Spec2Model ----
(***************************************************************************)
(* Model of pkg/connection/connection.go of the external-snapshotter:      *)
(* the CSIConnection facade over one gRPC channel to a CSI driver.         *)
(*                                                                         *)
(* One constructor runs New/connect; afterwards the callers of Callers     *)
(* invoke the operations of the facade concurrently on the one handle.     *)
(* The gRPC channel and the driver behind it are the environment: the      *)
(* channel changes its connectivity state on its own, and a pending        *)
(* remote call completes with whatever the transport or the driver         *)
(* answers.                                                                *)
(***************************************************************************)
EXTENDS Integers, Sequences, FiniteSets, TLC

VARIABLES
    cpc,        \* position of the constructor in New/connect
    handle,     \* c.conn: "nil" until grpc.Dial has returned a channel
    chan,       \* connectivity state of the channel
    src,        \* the sourceState argument of the pending WaitForStateChange
    notified,   \* the channel changed state since WaitForStateChange began to wait
    timedOut,   \* connect's context (context.WithTimeout) is done
    how,        \* the return statement connect left through
    readySeen,  \* history: the channel was Ready inside the loop before the deadline
    newErr,     \* the error New returned
    closed,     \* Close() has returned
    crashed,    \* a goroutine panicked: the process is gone
    pc,         \* per caller: the operation in progress and its position
    vol,        \* per caller: the volume argument of CreateSnapshot
    ctx,        \* per caller: the context of the call in progress
    sent,       \* per caller: the remote requests the call in progress has issued
    driverName, \* per caller: CreateSnapshot's local driverName
    pluginInfo, \* per caller: what CreateSnapshot's GetPluginInfo request returned
    afterClose, \* per caller: the call in progress began after Close() returned
    last,       \* the call that has just returned to its caller
    prev,       \* history: what the call taken before that one came to
    conv        \* a timestamp on its way through encoding and timestampToUnixTime

connVars == <<cpc, handle, src, notified, timedOut, how, readySeen, newErr>>
callVars == <<pc, vol, ctx, sent, driverName, pluginInfo, afterClose>>
vars == <<cpc, handle, chan, src, notified, timedOut, how, readySeen, newErr,
          closed, crashed, pc, vol, ctx, sent, driverName, pluginInfo,
          afterClose, last, prev, conv>>

(***************************************************************************)
(* Bounds of the model.                                                    *)
(***************************************************************************)
MaxCaps == 2        \* longest capability list the driver returns
MaxEntries == 2     \* longest entry list the driver returns
IntBits == 5        \* width of the scaled-down int64
NanosPerSecond == 3 \* scaled-down 10^9

Callers == {"c1", "c2"}

(***************************************************************************)
(* Values.                                                                 *)
(***************************************************************************)
ChanStates == {"Idle", "Connecting", "TransientFailure", "Ready", "Shutdown"}

Nil == "nil"
NoCall == [caller |-> "none"]
NoConv == [pc |-> "idle", encoded |-> FALSE, n |-> 0,
           wire |-> [present |-> FALSE, seconds |-> 0, nanos |-> 0],
           out |-> [time |-> 0, err |-> "nil"]]
NoInfo == [name |-> "", err |-> "none"]

\* errors made by the facade itself
ErrNameEmpty == "name is empty"
ErrNoCSI == "CSIPersistentVolumeSource not defined in spec"
ErrNotFound == "can not find snapshot for snapshotID"
ErrTimestamp == "timestamp: invalid"
\* errors made by the transport
ErrClosing == "grpc: the client connection is closing"
ErrCanceled == "context canceled or deadline exceeded"
ErrUnavailable == "transport: Unavailable"
ErrRemote == "driver: rpc error"
ErrDial == "grpc: dial failed"

TransportErrors == {ErrClosing, ErrCanceled, ErrUnavailable, ErrRemote}
LocalErrors == {ErrNameEmpty, ErrNoCSI, ErrNotFound, ErrTimestamp}

(***************************************************************************)
(* Wire values.  int64 is scaled down to IntBits bits and 10^9 to          *)
(* NanosPerSecond, so that the products stay inside TLC's 32-bit            *)
(* integers; the valid range of ptypes.Timestamp stays wider than the      *)
(* range UnixNano can represent, as it is for the real constants.          *)
(***************************************************************************)
Pow2(n) == IF n = 0 THEN 1 ELSE 2 ^ n
MaxInt == Pow2(IntBits - 1) - 1
MinInt == 0 - Pow2(IntBits - 1)
\* two's-complement wrap-around of Go's int64 arithmetic
Wrap(n) == ((n - MinInt) % Pow2(IntBits)) + MinInt

minValidSeconds == MinInt
maxValidSeconds == MaxInt

NilTs == [present |-> FALSE, seconds |-> 0, nanos |-> 0]
Ts(s, n) == [present |-> TRUE, seconds |-> s, nanos |-> n]
Timestamps == {NilTs, Ts(1, 1), Ts(2, 0), Ts(0 - 1, 1),
               Ts(1, NanosPerSecond), Ts(maxValidSeconds - 1, 0)}

\* a validation that takes a time before 1970 for a malformed one
validateTimestampSince1970(t) ==
    IF ~t.present THEN FALSE
    ELSE IF t.seconds < 0 THEN FALSE
    ELSE IF t.seconds >= maxValidSeconds THEN FALSE
    ELSE IF t.nanos < 0 \/ t.nanos >= NanosPerSecond THEN FALSE
    ELSE TRUE

\* ptypes.validateTimestamp
validateTimestamp(t) ==
    IF ~t.present THEN FALSE
    ELSE IF t.seconds < minValidSeconds THEN FALSE
    ELSE IF t.seconds >= maxValidSeconds THEN FALSE
    ELSE IF t.nanos < 0 \/ t.nanos >= NanosPerSecond THEN FALSE
    ELSE TRUE

\* time.Time.UnixNano: sec*1e9 + nsec in int64 arithmetic
UnixNano(t) == Wrap(t.seconds * NanosPerSecond + t.nanos)

timestampToUnixTime(t) ==
    IF ~validateTimestamp(t)
    THEN [time |-> 0 - 1, err |-> ErrTimestamp]
    ELSE [time |-> UnixNano(t), err |-> Nil]

NilSnapshot == [present |-> FALSE, SnapshotId |-> "", CreationTime |-> NilTs,
                SizeBytes |-> 0, ReadyToUse |-> FALSE]
Snap(id, t, size, ready) ==
    [present |-> TRUE, SnapshotId |-> id, CreationTime |-> t,
     SizeBytes |-> size, ReadyToUse |-> ready]
Snapshots ==
    {Snap("snap-xyz", Ts(1, 1), 1024, TRUE),
     Snap("snap-2", Ts(2, 0), 0, FALSE),
     Snap("", Ts(1, 1), 1024, TRUE),
     Snap("snap-xyz", NilTs, 1024, TRUE),
     Snap("snap-xyz", Ts(1, NanosPerSecond), 1024, TRUE),
     Snap("snap-xyz", Ts(0 - 1, 1), 1024, FALSE),
     Snap("snap-xyz", Ts(maxValidSeconds - 1, 0), 1024, TRUE)}

\* CreateSnapshotResponse.Snapshot
CreateResponses == {NilSnapshot} \cup Snapshots

\* ListSnapshotsResponse.Entries
Entry(s) == [Snapshot |-> s]
Entries ==
    {Entry(NilSnapshot),
     Entry(Snap("snap-xyz", Ts(1, 1), 1024, TRUE)),
     Entry(Snap("snap-2", Ts(2, 0), 0, FALSE)),
     Entry(Snap("", Ts(2, 0), 1024, TRUE)),
     Entry(Snap("snap-xyz", NilTs, 1024, TRUE))}

SeqsUpTo(S, n) == UNION {[1..k -> S] : k \in 0..n}
ListResponses == SeqsUpTo(Entries, MaxEntries)

\* GetPluginInfoResponse.Name
PluginNames == {"", "csi.example.com", "csi.other"}

\* ControllerGetCapabilitiesResponse.Capabilities: a nil entry, an entry
\* whose Rpc is nil, or an entry whose Rpc carries a type
RpcTypes == {"UNKNOWN", "CREATE_DELETE_SNAPSHOT", "LIST_SNAPSHOTS"}
CapEntries == {"nil", "noRpc"} \cup RpcTypes
CapResponses == SeqsUpTo(CapEntries, MaxCaps)

GetRpc(cap) == IF cap = "noRpc" THEN Nil ELSE cap
GetType(rpc) == rpc

\* volume *v1.PersistentVolume: a nil pointer, Spec.CSI == nil, or a CSI
\* source with its VolumeHandle
Volumes == {"nilVolume", "noCSI", "handle:", "handle:vol-abc"}

(***************************************************************************)
(* Initial state: New(address, timeout) has been called, nothing dialled.  *)
(***************************************************************************)
Init ==
    /\ cpc = "dial"
    /\ handle = Nil
    /\ chan = "Idle"
    /\ src = "none"
    /\ notified = FALSE
    /\ timedOut = FALSE
    /\ how = "none"
    /\ readySeen = FALSE
    /\ newErr = Nil
    /\ closed = FALSE
    /\ crashed = FALSE
    /\ pc = [t \in Callers |-> "idle"]
    /\ vol = [t \in Callers |-> "none"]
    /\ ctx = [t \in Callers |-> "live"]
    /\ sent = [t \in Callers |-> <<>>]
    /\ driverName = [t \in Callers |-> ""]
    /\ pluginInfo = [t \in Callers |-> NoInfo]
    /\ afterClose = [t \in Callers |-> FALSE]
    /\ last = NoCall
    /\ prev = "none"
    /\ conv = NoConv

\* every step of the program waits until the caller has taken the result
\* of the call that has just returned, and none is taken after a panic
Running == ~crashed /\ last.caller = "none"

InLoop == cpc \in {"sample", "enter", "blocked", "check"}

(***************************************************************************)
(* The channel (environment): grpc moves it between connectivity states    *)
(* on its own; every change wakes a pending WaitForStateChange.            *)
(***************************************************************************)
ChanSteps ==
    {<<"Idle", "Connecting">>, <<"Connecting", "Ready">>,
     <<"Connecting", "TransientFailure">>, <<"TransientFailure", "Connecting">>,
     <<"Ready", "TransientFailure">>, <<"Ready", "Idle">>}

ChannelTransition ==
    /\ Running
    /\ handle # Nil
    /\ \E s \in ChanStates :
        /\ <<chan, s>> \in ChanSteps
        /\ chan' = s
        /\ readySeen' = (readySeen \/ (s = "Ready" /\ InLoop /\ ~timedOut))
    /\ notified' = (IF cpc = "blocked" THEN TRUE ELSE notified)
    /\ UNCHANGED <<cpc, handle, src, timedOut, how, newErr, closed, crashed,
                   callVars, last, prev, conv>>

\* the timer of context.WithTimeout(context.Background(), timeout)
DeadlineFires ==
    /\ Running
    /\ InLoop
    /\ ~timedOut
    /\ timedOut' = TRUE
    /\ UNCHANGED <<cpc, handle, chan, src, notified, how, readySeen, newErr,
                   closed, crashed, callVars, last, prev, conv>>

(***************************************************************************)
(* connect                                                                 *)
(***************************************************************************)
\* grpc.Dial returned a channel (non-blocking dial) ...
DialOk ==
    /\ Running
    /\ cpc = "dial"
    /\ handle' = "conn0"
    /\ chan' = "Idle"
    /\ cpc' = "sample"
    /\ UNCHANGED <<src, notified, timedOut, how, readySeen, newErr, closed,
                   crashed, callVars, last, prev, conv>>

\* ... or an error: connect and New return it
DialFail ==
    /\ Running
    /\ cpc = "dial"
    /\ cpc' = "failed"
    /\ how' = "dialerr"
    /\ newErr' = ErrDial
    /\ UNCHANGED <<handle, chan, src, notified, timedOut, readySeen, closed,
                   crashed, callVars, last, prev, conv>>

\* conn.GetState(), the argument of WaitForStateChange
SampleState ==
    /\ Running
    /\ cpc = "sample"
    /\ src' = chan
    /\ cpc' = "enter"
    /\ UNCHANGED <<handle, chan, notified, timedOut, how, readySeen, newErr,
                   closed, crashed, callVars, last, prev, conv>>

\* WaitForStateChange: the state already differs from sourceState
WaitReturnsAtOnce ==
    /\ Running
    /\ cpc = "enter"
    /\ chan # src
    /\ cpc' = "check"
    /\ UNCHANGED <<handle, chan, src, notified, timedOut, how, readySeen,
                   newErr, closed, crashed, callVars, last, prev, conv>>

\* WaitForStateChange: the state is sourceState, wait for a change or for
\* the context
WaitBlocks ==
    /\ Running
    /\ cpc = "enter"
    /\ chan = src
    /\ notified' = FALSE
    /\ cpc' = "blocked"
    /\ UNCHANGED <<handle, chan, src, timedOut, how, readySeen, newErr,
                   closed, crashed, callVars, last, prev, conv>>

\* WaitForStateChange returned true: the channel changed state
WaitChanged ==
    /\ Running
    /\ cpc = "blocked"
    /\ notified
    /\ cpc' = "check"
    /\ UNCHANGED <<handle, chan, src, notified, timedOut, how, readySeen,
                   newErr, closed, crashed, callVars, last, prev, conv>>

\* a connect that reports the elapsed deadline as a connection error
AfterTimeoutFails ==
    [cpc |-> "failed", how |-> "timeout", err |-> "connection timed out"]

\* a connect that goes round the loop again when WaitForStateChange
\* returns false
AfterTimeoutLoops == [cpc |-> "sample", how |-> "none", err |-> Nil]

\* where connect goes when WaitForStateChange returns false
AfterTimeout == [cpc |-> "done", how |-> "timeout", err |-> Nil]

\* WaitForStateChange returned false: "Connection timed out", return conn, nil
WaitTimeout ==
    /\ Running
    /\ cpc = "blocked"
    /\ timedOut
    /\ cpc' = AfterTimeout.cpc
    /\ how' = AfterTimeout.how
    /\ newErr' = AfterTimeout.err
    /\ UNCHANGED <<handle, chan, src, notified, timedOut, readySeen, closed,
                   crashed, callVars, last, prev, conv>>

\* conn.GetState() == connectivity.Ready: "Connected", return conn, nil
CheckReady ==
    /\ Running
    /\ cpc = "check"
    /\ chan = "Ready"
    /\ cpc' = "done"
    /\ how' = "ready"
    /\ UNCHANGED <<handle, chan, src, notified, timedOut, readySeen, newErr,
                   closed, crashed, callVars, last, prev, conv>>

\* otherwise "Still trying" and the next round of the loop
CheckNotReady ==
    /\ Running
    /\ cpc = "check"
    /\ chan # "Ready"
    /\ cpc' = "sample"
    /\ UNCHANGED <<handle, chan, src, notified, timedOut, how, readySeen,
                   newErr, closed, crashed, callVars, last, prev, conv>>

\* New wraps the channel into &csiConnection{conn: conn}; connect's locals
\* and its context (defer cancel()) are gone
NewReturns ==
    /\ Running
    /\ cpc = "done"
    /\ cpc' = "open"
    /\ src' = "none"
    /\ notified' = FALSE
    /\ timedOut' = FALSE
    /\ how' = "none"
    /\ readySeen' = FALSE
    /\ UNCHANGED <<handle, chan, newErr, closed, crashed, callVars, last, prev, conv>>

(***************************************************************************)
(* The transport (environment).  A pending remote call ends with the       *)
(* driver's answer or its error while the channel is Ready, with           *)
(* Unavailable while it is in TransientFailure (calls are fail-fast), with *)
(* the context's error once the context is done, and with the closing      *)
(* error once the channel is shut down.  In Idle and Connecting the call   *)
(* stays pending.                                                          *)
(***************************************************************************)
Outcomes(t) ==
    (IF chan = "Shutdown" THEN {ErrClosing} ELSE {})
    \cup (IF ctx[t] = "done" THEN {ErrCanceled} ELSE {})
    \cup (IF chan = "TransientFailure" THEN {ErrUnavailable} ELSE {})
    \cup (IF chan = "Ready" THEN {ErrRemote, Nil} ELSE {})

\* the replies that can come with outcome err: one of rsps on success, the
\* empty reply otherwise
Replies(err, rsps, none) == IF err = Nil THEN rsps ELSE {none}

\* an interceptor that logs the invoker's error and does not return it
logGRPCSwallows(req, reply, err) == [req |-> req, reply |-> reply, err |-> Nil]

\* the unary interceptor: logs the request and hands it to the invoker, logs
\* the reply and the error and hands the invoker's reply and error on
logGRPC(req, reply, err) == [req |-> req, reply |-> reply, err |-> err]

(***************************************************************************)
(* What each operation makes of the reply and error of its remote call.    *)
(***************************************************************************)
\* a GetDriverName without the check of the empty name
GetDriverNameResultUnchecked(name, err) ==
    IF err # Nil THEN [name |-> "", err |-> err]
    ELSE [name |-> name, err |-> Nil]

GetDriverNameResult(name, err) ==
    IF err # Nil THEN [name |-> "", err |-> err]
    ELSE IF name = "" THEN [name |-> "", err |-> ErrNameEmpty]
    ELSE [name |-> name, err |-> Nil]

\* a Probe that keeps failing once a call before it was cancelled
ProbeResultSticky(err) ==
    IF prev = "cancelled" THEN ErrCanceled
    ELSE IF err # Nil THEN err ELSE Nil

ProbeResult(err) == IF err # Nil THEN err ELSE Nil

\* a scan that gives up at the first nil entry instead of skipping it
RECURSIVE ScanCreateDeleteSnapshotStops(_, _)
ScanCreateDeleteSnapshotStops(caps, i) ==
    IF i > Len(caps) THEN FALSE
    ELSE IF caps[i] = "nil" THEN FALSE
    ELSE IF GetRpc(caps[i]) = Nil THEN ScanCreateDeleteSnapshotStops(caps, i + 1)
    ELSE IF GetType(GetRpc(caps[i])) = "CREATE_DELETE_SNAPSHOT" THEN TRUE
    ELSE ScanCreateDeleteSnapshotStops(caps, i + 1)

RECURSIVE ScanCreateDeleteSnapshot(_, _)
ScanCreateDeleteSnapshot(caps, i) ==
    IF i > Len(caps) THEN FALSE
    ELSE IF caps[i] = "nil" THEN ScanCreateDeleteSnapshot(caps, i + 1)
    ELSE IF GetRpc(caps[i]) = Nil THEN ScanCreateDeleteSnapshot(caps, i + 1)
    ELSE IF GetType(GetRpc(caps[i])) = "CREATE_DELETE_SNAPSHOT" THEN TRUE
    ELSE ScanCreateDeleteSnapshot(caps, i + 1)

\* a query that keeps a positive answer and gives it again without looking
SupportsControllerCreateSnapshotResultCached(caps, err) ==
    IF prev = "supported" THEN [ok |-> TRUE, err |-> Nil]
    ELSE IF err # Nil THEN [ok |-> FALSE, err |-> err]
    ELSE [ok |-> ScanCreateDeleteSnapshot(caps, 1), err |-> Nil]

SupportsControllerCreateSnapshotResult(caps, err) ==
    IF err # Nil THEN [ok |-> FALSE, err |-> err]
    ELSE [ok |-> ScanCreateDeleteSnapshot(caps, 1), err |-> Nil]

RECURSIVE ScanListSnapshots(_, _)
ScanListSnapshots(caps, i) ==
    IF i > Len(caps) THEN FALSE
    ELSE IF caps[i] = "nil" THEN ScanListSnapshots(caps, i + 1)
    ELSE IF GetRpc(caps[i]) = Nil THEN ScanListSnapshots(caps, i + 1)
    ELSE IF GetType(GetRpc(caps[i])) = "LIST_SNAPSHOTS" THEN TRUE
    ELSE ScanListSnapshots(caps, i + 1)

SupportsControllerListSnapshotsResult(caps, err) ==
    IF err # Nil THEN [ok |-> FALSE, err |-> err]
    ELSE [ok |-> ScanListSnapshots(caps, 1), err |-> Nil]

ZeroSnapshot == [driverName |-> "", snapshotId |-> "", timestamp |-> 0,
                 size |-> 0, readyToUse |-> FALSE]
ZeroStatus == [readyToUse |-> FALSE, timestamp |-> 0, size |-> 0]

\* the volume check of CreateSnapshot: volume.Spec.CSI == nil
CreateSnapshotCheck(v) ==
    IF v = "nilVolume" THEN "panic"
    ELSE IF v = "noCSI" THEN ErrNoCSI
    ELSE Nil

\* a CreateSnapshot that returns what it has, and timestampToUnixTime's -1,
\* along with the error of the creation time
CreateSnapshotResultPartial(name, snap, err) ==
    IF err # Nil THEN [panic |-> FALSE, ret |-> ZeroSnapshot, err |-> err]
    ELSE IF ~snap.present
    THEN [panic |-> TRUE, ret |-> ZeroSnapshot, err |-> Nil]
    ELSE [panic |-> FALSE,
          ret |-> [driverName |-> name, snapshotId |-> snap.SnapshotId,
                   timestamp |-> timestampToUnixTime(snap.CreationTime).time,
                   size |-> snap.SizeBytes, readyToUse |-> snap.ReadyToUse],
          err |-> timestampToUnixTime(snap.CreationTime).err]

\* CreateSnapshot after client.CreateSnapshot returned (snap, err)
CreateSnapshotResult(name, snap, err) ==
    IF err # Nil THEN [panic |-> FALSE, ret |-> ZeroSnapshot, err |-> err]
    ELSE IF ~snap.present
    THEN [panic |-> TRUE, ret |-> ZeroSnapshot, err |-> Nil]
    ELSE IF timestampToUnixTime(snap.CreationTime).err # Nil
    THEN [panic |-> FALSE, ret |-> ZeroSnapshot,
          err |-> timestampToUnixTime(snap.CreationTime).err]
    ELSE [panic |-> FALSE,
          ret |-> [driverName |-> name, snapshotId |-> snap.SnapshotId,
                   timestamp |-> timestampToUnixTime(snap.CreationTime).time,
                   size |-> snap.SizeBytes, readyToUse |-> snap.ReadyToUse],
          err |-> Nil]

\* a deleteSnapshot that takes a cancelled request for a finished one
DeleteSnapshotResultSwallows(err) ==
    IF err # Nil /\ err # ErrCanceled THEN err ELSE Nil

DeleteSnapshotResult(err) == IF err # Nil THEN err ELSE Nil

\* a GetSnapshotStatus that answers an empty entry list with the zero status
GetSnapshotStatusResultEmptyOk(entries, err) ==
    IF err # Nil THEN [panic |-> FALSE, ret |-> ZeroStatus, err |-> err]
    ELSE IF Len(entries) = 0
    THEN [panic |-> FALSE, ret |-> ZeroStatus, err |-> Nil]
    ELSE IF ~entries[1].Snapshot.present
    THEN [panic |-> TRUE, ret |-> ZeroStatus, err |-> Nil]
    ELSE IF timestampToUnixTime(entries[1].Snapshot.CreationTime).err # Nil
    THEN [panic |-> FALSE, ret |-> ZeroStatus,
          err |-> timestampToUnixTime(entries[1].Snapshot.CreationTime).err]
    ELSE [panic |-> FALSE,
          ret |-> [readyToUse |-> entries[1].Snapshot.ReadyToUse,
                   timestamp |->
                       timestampToUnixTime(entries[1].Snapshot.CreationTime).time,
                   size |-> entries[1].Snapshot.SizeBytes],
          err |-> Nil]

\* a GetSnapshotStatus that reads the last entry of the list
GetSnapshotStatusResultLast(entries, err) ==
    IF err # Nil THEN [panic |-> FALSE, ret |-> ZeroStatus, err |-> err]
    ELSE IF Len(entries) = 0
    THEN [panic |-> FALSE, ret |-> ZeroStatus, err |-> ErrNotFound]
    ELSE IF ~entries[Len(entries)].Snapshot.present
    THEN [panic |-> TRUE, ret |-> ZeroStatus, err |-> Nil]
    ELSE IF timestampToUnixTime(entries[Len(entries)].Snapshot.CreationTime).err
            # Nil
    THEN [panic |-> FALSE, ret |-> ZeroStatus,
          err |-> timestampToUnixTime(
                      entries[Len(entries)].Snapshot.CreationTime).err]
    ELSE [panic |-> FALSE,
          ret |-> [readyToUse |-> entries[Len(entries)].Snapshot.ReadyToUse,
                   timestamp |->
                       timestampToUnixTime(
                           entries[Len(entries)].Snapshot.CreationTime).time,
                   size |-> entries[Len(entries)].Snapshot.SizeBytes],
          err |-> Nil]

\* GetSnapshotStatus after client.ListSnapshots returned (entries, err); a nil
\* and an empty Entries are both the empty sequence
GetSnapshotStatusResult(entries, err) ==
    IF err # Nil THEN [panic |-> FALSE, ret |-> ZeroStatus, err |-> err]
    ELSE IF Len(entries) = 0
    THEN [panic |-> FALSE, ret |-> ZeroStatus, err |-> ErrNotFound]
    ELSE IF ~entries[1].Snapshot.present
    THEN [panic |-> TRUE, ret |-> ZeroStatus, err |-> Nil]
    ELSE IF timestampToUnixTime(entries[1].Snapshot.CreationTime).err # Nil
    THEN [panic |-> FALSE, ret |-> ZeroStatus,
          err |-> timestampToUnixTime(entries[1].Snapshot.CreationTime).err]
    ELSE [panic |-> FALSE,
          ret |-> [readyToUse |-> entries[1].Snapshot.ReadyToUse,
                   timestamp |->
                       timestampToUnixTime(entries[1].Snapshot.CreationTime).time,
                   size |-> entries[1].Snapshot.SizeBytes],
          err |-> Nil]

\* c.conn.Close(): an error when the channel was closed before
CloseResult(state) == IF state = "Shutdown" THEN ErrClosing ELSE Nil

(***************************************************************************)
(* Calls on the handle.                                                    *)
(***************************************************************************)
SimpleOps == {"GetDriverName", "Probe", "SupportsControllerCreateSnapshot",
              "SupportsControllerListSnapshots", "DeleteSnapshot",
              "GetSnapshotStatus"}

\* the remote method an operation calls first
Method(op) ==
    CASE op = "GetDriverName" -> "GetPluginInfo"
      [] op = "Probe" -> "Probe"
      [] op = "SupportsControllerCreateSnapshot" -> "ControllerGetCapabilities"
      [] op = "SupportsControllerListSnapshots" -> "ControllerGetCapabilities"
      [] op = "DeleteSnapshot" -> "DeleteSnapshot"
      [] op = "GetSnapshotStatus" -> "ListSnapshots"
      [] op = "CreateSnapshot" -> "GetPluginInfo"

\* the record of a call of caller t that ends now
Call(t, op, reply, transport, ret, err) ==
    [caller |-> t, op |-> op, vol |-> vol[t], ctx |-> ctx[t],
     afterClose |-> afterClose[t], sent |-> sent[t], name |-> driverName[t],
     info |-> pluginInfo[t],
     reply |-> reply, transport |-> transport, ret |-> ret, err |-> err,
     panicked |-> FALSE]

\* a return that shuts the channel down when the call failed
ReturnClosing(t, rec) ==
    /\ last' = rec
    /\ pc' = [pc EXCEPT ![t] = "idle"]
    /\ vol' = [vol EXCEPT ![t] = "none"]
    /\ ctx' = [ctx EXCEPT ![t] = "live"]
    /\ sent' = [sent EXCEPT ![t] = <<>>]
    /\ driverName' = [driverName EXCEPT ![t] = ""]
    /\ pluginInfo' = [pluginInfo EXCEPT ![t] = NoInfo]
    /\ afterClose' = [afterClose EXCEPT ![t] = FALSE]
    /\ chan' = IF rec.err # Nil THEN "Shutdown" ELSE chan
    /\ UNCHANGED <<connVars, closed, crashed, prev, conv>>

\* the call returns to its caller
Return(t, rec) ==
    /\ last' = rec
    /\ pc' = [pc EXCEPT ![t] = "idle"]
    /\ vol' = [vol EXCEPT ![t] = "none"]
    /\ ctx' = [ctx EXCEPT ![t] = "live"]
    /\ sent' = [sent EXCEPT ![t] = <<>>]
    /\ driverName' = [driverName EXCEPT ![t] = ""]
    /\ pluginInfo' = [pluginInfo EXCEPT ![t] = NoInfo]
    /\ afterClose' = [afterClose EXCEPT ![t] = FALSE]
    /\ UNCHANGED <<connVars, chan, closed, crashed, prev, conv>>

\* a nil dereference: the goroutine panics and takes the process down
Panic(t, rec) ==
    /\ last' = [rec EXCEPT !.panicked = TRUE]
    /\ crashed' = TRUE
    /\ UNCHANGED <<connVars, chan, closed, callVars, prev, conv>>

\* what a call came to, as far as the history keeps it
Outcome(rec) ==
    IF rec.err = ErrCanceled THEN "cancelled"
    ELSE IF rec.op = "SupportsControllerCreateSnapshot" /\ rec.err = Nil
    THEN (IF rec.ret THEN "supported" ELSE "unsupported")
    ELSE "other"

\* the caller takes the result
Observe ==
    /\ ~crashed
    /\ last.caller # "none"
    /\ last' = NoCall
    /\ prev' = Outcome(last)
    /\ UNCHANGED <<connVars, chan, closed, crashed, callVars, conv>>

\* a caller invokes an operation that is one remote call; the context it
\* passes may be done already
StartCall(t) ==
    /\ Running
    /\ cpc = "open"
    /\ pc[t] = "idle"
    /\ \E op \in SimpleOps, c \in {"live", "done"} :
        /\ pc' = [pc EXCEPT ![t] = op]
        /\ ctx' = [ctx EXCEPT ![t] = c]
        /\ sent' = [sent EXCEPT ![t] = <<logGRPC(Method(op), "", Nil).req>>]
    /\ afterClose' = [afterClose EXCEPT ![t] = closed]
    /\ UNCHANGED <<connVars, chan, closed, crashed, vol, driverName,
                   pluginInfo, last, prev, conv>>

\* the caller cancels the context, or its deadline expires
CtxDone(t) ==
    /\ Running
    /\ pc[t] # "idle"
    /\ ctx[t] = "live"
    /\ ctx' = [ctx EXCEPT ![t] = "done"]
    /\ UNCHANGED <<connVars, chan, closed, crashed, pc, vol, sent, driverName,
                   pluginInfo, afterClose, last, prev, conv>>

GetDriverName(t) ==
    /\ Running
    /\ pc[t] = "GetDriverName"
    /\ \E out \in Outcomes(t) : \E name \in Replies(out, PluginNames, "") :
        LET rsp == logGRPC(sent[t][Len(sent[t])], name, out)
            r == GetDriverNameResult(rsp.reply, rsp.err)
        IN Return(t, Call(t, "GetDriverName", name, out, r.name, r.err))

\* a Probe that sends its request once more when it has failed
ProbeRetries(t) ==
    /\ Running
    /\ pc[t] = "Probe"
    /\ \E out \in Outcomes(t) :
        LET rsp == logGRPC(sent[t][Len(sent[t])], "", out)
        IN IF rsp.err # Nil /\ Len(sent[t]) < 2
           THEN /\ sent' = [sent EXCEPT ![t] = Append(@, "Probe")]
                /\ UNCHANGED <<connVars, chan, closed, crashed, pc, vol, ctx,
                               driverName, pluginInfo, afterClose, last, prev,
                               conv>>
           ELSE Return(t, Call(t, "Probe", "", out, "", ProbeResult(rsp.err)))

Probe(t) ==
    /\ Running
    /\ pc[t] = "Probe"
    /\ \E out \in Outcomes(t) :
        LET rsp == logGRPC(sent[t][Len(sent[t])], "", out)
        IN Return(t, Call(t, "Probe", "", out, "", ProbeResult(rsp.err)))

SupportsControllerCreateSnapshot(t) ==
    /\ Running
    /\ pc[t] = "SupportsControllerCreateSnapshot"
    /\ \E out \in Outcomes(t) : \E caps \in Replies(out, CapResponses, <<>>) :
        LET rsp == logGRPC(sent[t][Len(sent[t])], caps, out)
            r == SupportsControllerCreateSnapshotResult(rsp.reply, rsp.err)
        IN Return(t, Call(t, "SupportsControllerCreateSnapshot", caps, out,
                          r.ok, r.err))

SupportsControllerListSnapshots(t) ==
    /\ Running
    /\ pc[t] = "SupportsControllerListSnapshots"
    /\ \E out \in Outcomes(t) : \E caps \in Replies(out, CapResponses, <<>>) :
        LET rsp == logGRPC(sent[t][Len(sent[t])], caps, out)
            r == SupportsControllerListSnapshotsResult(rsp.reply, rsp.err)
        IN Return(t, Call(t, "SupportsControllerListSnapshots", caps, out,
                          r.ok, r.err))

\* CreateSnapshot up to the call of c.GetDriverName
CreateSnapshotStart(t) ==
    /\ Running
    /\ cpc = "open"
    /\ pc[t] = "idle"
    /\ \E v \in Volumes, c \in {"live", "done"} :
        LET rec == [Call(t, "CreateSnapshot", NilSnapshot, Nil, ZeroSnapshot,
                         CreateSnapshotCheck(v))
                    EXCEPT !.vol = v, !.ctx = c, !.afterClose = closed]
        IN CASE CreateSnapshotCheck(v) = "panic" -> Panic(t, rec)
             [] CreateSnapshotCheck(v) = Nil ->
                 /\ pc' = [pc EXCEPT ![t] = "CreateSnapshot:name"]
                 /\ vol' = [vol EXCEPT ![t] = v]
                 /\ ctx' = [ctx EXCEPT ![t] = c]
                 /\ sent' = [sent EXCEPT ![t] =
                               <<logGRPC(Method("CreateSnapshot"), "", Nil).req>>]
                 /\ afterClose' = [afterClose EXCEPT ![t] = closed]
                 /\ UNCHANGED <<connVars, chan, closed, crashed, driverName,
                                pluginInfo, last, prev, conv>>
             [] OTHER -> Return(t, rec)

\* c.GetDriverName returned inside CreateSnapshot; on success the create
\* request goes out
CreateSnapshotName(t) ==
    /\ Running
    /\ pc[t] = "CreateSnapshot:name"
    /\ \E out \in Outcomes(t) : \E name \in Replies(out, PluginNames, "") :
        LET rsp == logGRPC(sent[t][Len(sent[t])], name, out)
            r == GetDriverNameResult(rsp.reply, rsp.err)
        IN IF r.err # Nil
           THEN Return(t, [Call(t, "CreateSnapshot", NilSnapshot, out,
                                ZeroSnapshot, r.err)
                           EXCEPT !.info = [name |-> name, err |-> out]])
           ELSE /\ driverName' = [driverName EXCEPT ![t] = r.name]
                /\ pluginInfo' = [pluginInfo EXCEPT
                                     ![t] = [name |-> name, err |-> out]]
                /\ sent' = [sent EXCEPT ![t] =
                              Append(@, logGRPC("CreateSnapshot", NilSnapshot,
                                                Nil).req)]
                /\ pc' = [pc EXCEPT ![t] = "CreateSnapshot:create"]
                /\ UNCHANGED <<connVars, chan, closed, crashed, vol, ctx,
                               afterClose, last, prev, conv>>

\* client.CreateSnapshot returned
CreateSnapshotCreate(t) ==
    /\ Running
    /\ pc[t] = "CreateSnapshot:create"
    /\ \E out \in Outcomes(t) :
       \E snap \in Replies(out, CreateResponses, NilSnapshot) :
        LET rsp == logGRPC(sent[t][Len(sent[t])], snap, out)
            r == CreateSnapshotResult(driverName[t], rsp.reply, rsp.err)
            rec == Call(t, "CreateSnapshot", snap, out, r.ret, r.err)
        IN IF r.panic THEN Panic(t, rec) ELSE Return(t, rec)

DeleteSnapshot(t) ==
    /\ Running
    /\ pc[t] = "DeleteSnapshot"
    /\ \E out \in Outcomes(t) :
        LET rsp == logGRPC(sent[t][Len(sent[t])], "", out)
        IN Return(t, Call(t, "DeleteSnapshot", "", out, "",
                          DeleteSnapshotResult(rsp.err)))

GetSnapshotStatus(t) ==
    /\ Running
    /\ pc[t] = "GetSnapshotStatus"
    /\ \E out \in Outcomes(t) : \E entries \in Replies(out, ListResponses, <<>>) :
        LET rsp == logGRPC(sent[t][Len(sent[t])], entries, out)
            r == GetSnapshotStatusResult(rsp.reply, rsp.err)
            rec == Call(t, "GetSnapshotStatus", entries, out, r.ret, r.err)
        IN IF r.panic THEN Panic(t, rec) ELSE Return(t, rec)

\* a Close that leaves the channel as it is
CloseEffectNone(state) == state

\* what Close does to the channel
CloseEffect(state) == "Shutdown"

Close(t) ==
    /\ Running
    /\ cpc = "open"
    /\ pc[t] = "idle"
    /\ chan' = CloseEffect(chan)
    /\ closed' = TRUE
    /\ last' = [Call(t, "Close", "", Nil, "", CloseResult(chan))
                EXCEPT !.afterClose = closed]
    /\ UNCHANGED <<connVars, crashed, callVars, prev, conv>>

connect ==
    \/ DialOk
    \/ DialFail
    \/ SampleState
    \/ WaitReturnsAtOnce
    \/ WaitBlocks
    \/ WaitChanged
    \/ WaitTimeout
    \/ CheckReady
    \/ CheckNotReady

Next ==
    \/ connect
    \/ NewReturns
    \/ ChannelTransition
    \/ DeadlineFires
    \/ Observe
    \/ \E t \in Callers : StartCall(t)
    \/ \E t \in Callers : CtxDone(t)
    \/ \E t \in Callers : GetDriverName(t)
    \/ \E t \in Callers : Probe(t)
    \/ \E t \in Callers : SupportsControllerCreateSnapshot(t)
    \/ \E t \in Callers : SupportsControllerListSnapshots(t)
    \/ \E t \in Callers : CreateSnapshotStart(t)
    \/ \E t \in Callers : CreateSnapshotName(t)
    \/ \E t \in Callers : CreateSnapshotCreate(t)
    \/ \E t \in Callers : DeleteSnapshot(t)
    \/ \E t \in Callers : GetSnapshotStatus(t)
    \/ \E t \in Callers : Close(t)

Spec == Init /\ [][Next]_vars

(***************************************************************************)
(* timestampToUnixTime on its own: a timestamp arrives, either any value   *)
(* the wire type can hold or the encoding of a time given in nanoseconds,  *)
(* and is converted.                                                       *)
(***************************************************************************)
\* the seconds and nanos a timestamp message can carry, around the valid ones
WireSeconds == (minValidSeconds - 1) .. maxValidSeconds
WireNanos == (0 - 1) .. NanosPerSecond
WireTimestamps == {NilTs} \cup {Ts(sec, ns) : sec \in WireSeconds, ns \in WireNanos}

\* the timestamp of the time n nanoseconds from the epoch: whole seconds
\* rounded down, and the rest in nanos
TimestampProto(n) == Ts(n \div NanosPerSecond, n % NanosPerSecond)

mainVars == <<connVars, chan, closed, crashed, callVars, last, prev>>

ReceiveTime ==
    /\ conv.pc = "idle"
    /\ \E t \in WireTimestamps :
        conv' = [conv EXCEPT !.pc = "wire", !.wire = t]
    /\ UNCHANGED mainVars

EncodeTime ==
    /\ conv.pc = "idle"
    /\ \E n \in MinInt .. MaxInt :
        conv' = [conv EXCEPT !.pc = "wire", !.encoded = TRUE, !.n = n,
                             !.wire = TimestampProto(n)]
    /\ UNCHANGED mainVars

ConvertTime ==
    /\ conv.pc = "wire"
    /\ conv' = [conv EXCEPT !.pc = "done", !.out = timestampToUnixTime(conv.wire)]
    /\ UNCHANGED mainVars

NextTs ==
    \/ ReceiveTime
    \/ EncodeTime
    \/ ConvertTime

TsSpec == Init /\ [][NextTs]_vars

(***************************************************************************)
(* Scheduling.  The constructor's goroutine keeps running and the timer of *)
(* its context fires.  The select of WaitForStateChange picks at random    *)
(* among its ready cases, so the context's case cannot lose for ever; and  *)
(* the channel, whose state changes are paced by connection attempts and   *)
(* their backoff, cannot change in every gap between GetState and the      *)
(* check WaitForStateChange begins with.  A pending call is completed by   *)
(* the transport whenever it can be, every caller's context is done in the *)
(* end (callers pass a deadline), and callers take their results.          *)
(***************************************************************************)
CallStep(t) ==
    \/ GetDriverName(t)
    \/ Probe(t)
    \/ SupportsControllerCreateSnapshot(t)
    \/ SupportsControllerListSnapshots(t)
    \/ CreateSnapshotName(t)
    \/ CreateSnapshotCreate(t)
    \/ DeleteSnapshot(t)
    \/ GetSnapshotStatus(t)

\* the constructor and the first caller of the handle
FirstCaller == "c1"
NextFirst ==
    \/ connect
    \/ NewReturns
    \/ ChannelTransition
    \/ DeadlineFires
    \/ Observe
    \/ StartCall(FirstCaller)
    \/ CreateSnapshotStart(FirstCaller)
    \/ CtxDone(FirstCaller)
    \/ CallStep(FirstCaller)

Fairness ==
    /\ WF_vars(connect)
    /\ WF_vars(NewReturns)
    /\ WF_vars(DeadlineFires)
    /\ SF_vars(WaitBlocks)
    /\ SF_vars(WaitTimeout)
    /\ WF_vars(Observe)
    /\ SF_vars(CtxDone(FirstCaller))
    /\ SF_vars(CallStep(FirstCaller))

FairSpec == Init /\ [][NextFirst]_vars /\ Fairness

(***************************************************************************)
(* Properties.                                                             *)
(***************************************************************************)
Returned == last.caller # "none"
Range(q) == {q[i] : i \in 1..Len(q)}
NoHandle == {"noCSI", "handle:"}

\* C1: a CreateSnapshot whose volume has no CSI source, or a CSI source with
\* an empty VolumeHandle, returns the precondition error and sends no remote
\* request at all, neither GetPluginInfo nor CreateSnapshot.
C1_NoHandleNoRequest ==
    /\ \A t \in Callers : vol[t] \in NoHandle => sent[t] = <<>>
    /\ (Returned /\ last.op = "CreateSnapshot" /\ last.vol \in NoHandle)
        => (last.err = ErrNoCSI /\ last.sent = <<>>)

\* C2: when the channel is Ready at some moment of the polling loop before
\* the deadline, connect returns at once and not by waiting for the deadline:
\* it never sits in WaitForStateChange on a channel that was Ready when
\* sampled and still is, and it never leaves through the timeout branch after
\* the channel was Ready.
C2_ReadyReturnsAtOnce ==
    /\ ~(cpc = "blocked" /\ src = "Ready" /\ chan = "Ready" /\ ~notified
         /\ ~timedOut)
    /\ (cpc = "done" /\ how = "timeout") => ~readySeen

\* C3: once grpc.Dial has succeeded connect reports no error: it returns the
\* channel with a nil error, also when the deadline elapsed first, and New
\* hands out the handle.
C3_NoErrorAfterDial ==
    /\ handle # Nil => (cpc # "failed" /\ newErr = Nil)
    /\ cpc \in {"done", "open"} => (handle = "conn0" /\ newErr = Nil)

\* C3 witness: connect has returned on the elapsed deadline with a channel
\* that is not Ready.
C3_Witness ==
    cpc = "done" /\ how = "timeout" /\ chan # "Ready" /\ handle = "conn0"

\* C4: connect always terminates, whatever the channel does: once dialled it
\* returns the handle, at the latest after the deadline has fired, also when
\* the channel goes from state to state for ever without being Ready; and a
\* call made on the handle then does not hang: it returns, with the
\* transport's error when its remote call failed, and with nothing else as
\* long as the channel has never been Ready.
C4_ConnectTerminates ==
    /\ [](cpc = "sample" => <>(cpc = "done"))
    /\ [](timedOut => <>(cpc = "done"))
    /\ [](pc[FirstCaller] # "idle" => <>(pc[FirstCaller] = "idle" \/ crashed))
    /\ []((Returned /\ last.sent # <<>> /\ last.transport # Nil)
            => (last.err = last.transport /\ last.err \in TransportErrors))
    /\ ([](chan # "Ready"))
        => []((Returned /\ last.sent # <<>>) => last.err \in TransportErrors)

\* C4 witness: connect has come back on the deadline from a channel that is
\* in TransientFailure, and the first call on the handle has failed with
\* the transport's error.
C4_Witness ==
    /\ Returned
    /\ last.op = "GetDriverName"
    /\ last.err = ErrUnavailable
    /\ chan = "TransientFailure"

\* C5: in every CreateSnapshot call, whatever the other callers do, the
\* create request goes out only after this call's own GetPluginInfo request
\* returned without error and with a non-empty name; when that request
\* fails or returns an empty name the call returns an error and has sent no
\* create request.
NameFetched(info) == info.err = Nil /\ info.name # ""
C5_NameBeforeCreate ==
    /\ \A t \in Callers :
        "CreateSnapshot" \in Range(sent[t])
            => /\ sent[t] = <<"GetPluginInfo", "CreateSnapshot">>
               /\ NameFetched(pluginInfo[t])
    /\ (Returned /\ last.op = "CreateSnapshot")
        => /\ "CreateSnapshot" \in Range(last.sent)
                => /\ last.sent = <<"GetPluginInfo", "CreateSnapshot">>
                   /\ NameFetched(last.info)
           /\ (last.sent # <<>> /\ ~NameFetched(last.info))
                => /\ last.err # Nil
                   /\ last.sent = <<"GetPluginInfo">>

\* C5 witness: both callers are inside CreateSnapshot with their create
\* requests out, each after its own driver name.
C5_Witness ==
    /\ \A t \in Callers : pc[t] = "CreateSnapshot:create"
    /\ driverName["c1"] # driverName["c2"]

\* C6: GetDriverName, CreateSnapshot and GetSnapshotStatus return a complete
\* result or an error: a reply with an empty driver name, an empty snapshot
\* id, no snapshot message, no creation timestamp or no entry never comes
\* back as a success, and never ends in anything but an error.
CompleteSnapshot(snap) ==
    snap.present /\ snap.SnapshotId # "" /\ snap.CreationTime.present
C6_CompleteOrError ==
    Returned =>
        /\ (last.op \in {"GetDriverName", "CreateSnapshot", "GetSnapshotStatus"}
            /\ last.sent # <<>>)
            => ~last.panicked
        /\ (last.op = "GetDriverName" /\ last.err = Nil) => last.ret # ""
        /\ (last.op = "CreateSnapshot" /\ last.err = Nil /\ ~last.panicked)
            => /\ last.ret.driverName # ""
               /\ last.ret.snapshotId # ""
               /\ CompleteSnapshot(last.reply)
        /\ (last.op = "GetSnapshotStatus" /\ last.err = Nil /\ ~last.panicked)
            => /\ Len(last.reply) > 0
               /\ last.reply[1].Snapshot.present
               /\ last.reply[1].Snapshot.CreationTime.present

\* C7: a GetSnapshotStatus whose ListSnapshots call succeeded with no entry
\* returns the not-found error, never the success (false, 0, 0, nil).
C7_EmptyListNotFound ==
    (Returned /\ last.op = "GetSnapshotStatus" /\ last.transport = Nil
     /\ Len(last.reply) = 0)
        => (last.err = ErrNotFound /\ ~last.panicked /\ last.ret = ZeroStatus)

\* C7 witness: ListSnapshots succeeded with an empty entry list.
C7_Witness ==
    /\ Returned
    /\ last.op = "GetSnapshotStatus"
    /\ last.transport = Nil
    /\ last.reply = <<>>

\* C8: for every capability list, SupportsControllerCreateSnapshot returns
\* (true, nil) iff some entry carries CREATE_DELETE_SNAPSHOT and
\* SupportsControllerListSnapshots iff some entry carries LIST_SNAPSHOTS,
\* else (false, nil); an error comes back only when the remote call failed,
\* and then it is that call's error.
Carries(caps, type) == \E i \in 1..Len(caps) : caps[i] = type
SupportsAnswer(type) ==
    IF last.transport = Nil
    THEN last.err = Nil /\ (last.ret <=> Carries(last.reply, type))
    ELSE last.err = last.transport /\ last.ret = FALSE
C8_SupportsIff ==
    /\ (Returned /\ last.op = "SupportsControllerCreateSnapshot")
        => SupportsAnswer("CREATE_DELETE_SNAPSHOT")
    /\ (Returned /\ last.op = "SupportsControllerListSnapshots")
        => SupportsAnswer("LIST_SNAPSHOTS")

\* C8 witness: the capability sits behind a nil entry and is found.
C8_Witness ==
    /\ Returned
    /\ last.op = "SupportsControllerCreateSnapshot"
    /\ last.reply = <<"nil", "CREATE_DELETE_SNAPSHOT">>
    /\ last.ret = TRUE

\* C9 as stated: every operation begun after Close() returned fails with the
\* channel-closed error (here already for the calls that are given a live
\* context and a non-nil volume).
Subsequent == Returned /\ last.afterClose /\ last.op # "Close"
C9_ClosedChannelError ==
    (Subsequent /\ last.ctx = "live" /\ last.vol # "nilVolume")
        => (~last.panicked /\ last.err = ErrClosing)

\* C9 as amended: every operation begun after Close() returned, CreateSnapshot
\* being given a non-nil volume, fails with an error and returns no result;
\* the error is the channel-closed error when the operation sent a request
\* under a live context, the precondition error when CreateSnapshot sent
\* none, and else the channel-closed or the context's error.
C9_ClosedAlwaysFails ==
    (Subsequent /\ last.vol # "nilVolume") =>
        /\ ~last.panicked
        /\ last.err # Nil
        /\ last.op = "CreateSnapshot" => last.ret = ZeroSnapshot
        /\ last.op = "GetSnapshotStatus" => last.ret = ZeroStatus
        /\ last.op = "GetDriverName" => last.ret = ""
        /\ last.op \in {"SupportsControllerCreateSnapshot",
                        "SupportsControllerListSnapshots"} => last.ret = FALSE
        /\ (last.sent # <<>> /\ last.ctx = "live") => last.err = ErrClosing
        /\ last.sent = <<>> => (last.op = "CreateSnapshot" /\ last.err = ErrNoCSI)
        /\ last.err \in {ErrClosing, ErrCanceled, ErrNoCSI}

\* C9 witness: a capability query begun after Close() has failed on the
\* closed channel.
C9_Witness ==
    /\ Subsequent
    /\ last.op = "SupportsControllerCreateSnapshot"
    /\ last.ctx = "live"
    /\ last.err = ErrClosing

\* C10: no step but Close shuts the channel down, and no step after the dial
\* replaces the handle: whichever way the operations end, the handle stays
\* the one opened at construction and the channel stays open.
C10_OnlyCloseCloses ==
    [][/\ handle # Nil => handle' = handle
       /\ (chan # "Shutdown" /\ chan' = "Shutdown")
            => (last'.caller # "none" /\ last'.op = "Close" /\ closed')
       /\ chan = "Shutdown" => chan' = "Shutdown"]_vars

\* C10 witness: with no Close so far, a call has ended on its cancelled
\* context and the channel is still open and Ready.
C10_Witness ==
    /\ Returned
    /\ last.err = ErrCanceled
    /\ ~closed
    /\ handle = "conn0"
    /\ chan = "Ready"

\* a request that was answered, with an answer the operation can use
Answered ==
    /\ Returned
    /\ ~last.panicked
    /\ last.transport = Nil
    /\ last.op \in {"Probe", "DeleteSnapshot", "SupportsControllerCreateSnapshot",
                    "SupportsControllerListSnapshots"}

\* the step is the return of a call whose request was cancelled
CancelledReturn == last = NoCall /\ last' # NoCall /\ last'.transport = ErrCanceled

\* C11: a request cut short by the caller's context makes the operation
\* return the cancellation error, only a call whose context is done gets
\* it, and that return leaves the channel and the handle as they were; a
\* later operation, whose context is live and whose request is answered,
\* succeeds.
C11_CancelAborts ==
    /\ [](Returned /\ last.transport = ErrCanceled
            => last.ctx = "done" /\ last.err = ErrCanceled /\ ~last.panicked)
    /\ [](prev = "cancelled" /\ Answered /\ last.ctx = "live" => last.err = Nil)
    /\ [][CancelledReturn => chan' = chan /\ handle' = handle /\ closed' = closed]_vars

C11_Witness ==
    /\ prev = "cancelled"
    /\ Answered
    /\ last.ctx = "live"
    /\ last.op = "DeleteSnapshot"
    /\ last.err = Nil
    /\ chan = "Ready"

\* the requests a call may have sent by the time it returns
SentBy(op) ==
    IF op \in SimpleOps THEN {<<Method(op)>>}
    ELSE IF op = "CreateSnapshot"
    THEN {<<>>, <<"GetPluginInfo">>, <<"GetPluginInfo", "CreateSnapshot">>}
    ELSE {<<>>}

\* C12: no operation retries.  A call of a simple operation has sent exactly
\* its one request, while it waits and when it returns; CreateSnapshot has
\* sent GetPluginInfo and then at most one CreateSnapshot, the second only
\* after the first succeeded; and a request that failed is not sent again:
\* the call returns with that request last in what it sent and with the
\* request's error as its own.
C12_NoRetry ==
    /\ \A t \in Callers :
        /\ pc[t] \in SimpleOps => sent[t] = <<Method(pc[t])>>
        /\ pc[t] = "CreateSnapshot:name" => sent[t] = <<"GetPluginInfo">>
        /\ pc[t] = "CreateSnapshot:create"
            => sent[t] = <<"GetPluginInfo", "CreateSnapshot">>
               /\ pluginInfo[t].err = Nil
    /\ Returned =>
        /\ last.sent \in SentBy(last.op)
        /\ last.transport # Nil => last.sent # <<>> /\ last.err = last.transport
        /\ last.op = "CreateSnapshot" /\ Len(last.sent) = 2 => last.info.err = Nil
        /\ last.op = "CreateSnapshot" /\ last.info.err \in TransportErrors
            => last.sent = <<"GetPluginInfo">> /\ last.err = last.info.err

C12_Witness ==
    /\ Returned
    /\ last.op = "CreateSnapshot"
    /\ last.sent = <<"GetPluginInfo", "CreateSnapshot">>
    /\ last.transport = ErrRemote
    /\ last.err = ErrRemote

\* the time of a timestamp in nanoseconds, in unbounded arithmetic
ExactNanos(t) == t.seconds * NanosPerSecond + t.nanos

Malformed(t) == ~t.present \/ t.nanos < 0 \/ t.nanos >= NanosPerSecond

Representable(n) == MinInt <= n /\ n <= MaxInt

\* C13: timestampToUnixTime returns an error for every timestamp that is
\* malformed or whose time in nanoseconds does not fit the integer, and when
\* it returns no error its result is seconds * NanosPerSecond + nanos
\* exactly.
C13_ErrorOrExact ==
    conv.pc = "done" =>
        /\ Malformed(conv.wire) \/ ~Representable(ExactNanos(conv.wire))
            => conv.out.err # Nil
        /\ conv.out.err = Nil => conv.out.time = ExactNanos(conv.wire)

\* C14: a time of n nanoseconds, negative ones included, encoded as whole
\* seconds and nanos in 0 .. NanosPerSecond - 1 and converted by
\* timestampToUnixTime, comes back as n with no error.
C14_RoundTrip ==
    conv.pc = "done" /\ conv.encoded => conv.out.err = Nil /\ conv.out.time = conv.n

C14_Witness ==
    /\ conv.pc = "done"
    /\ conv.encoded
    /\ conv.n = MinInt
    /\ conv.wire.seconds * NanosPerSecond < MinInt
    /\ conv.out.time = MinInt

\* C15: a CreateSnapshot that succeeds returns the driver name its own
\* GetPluginInfo request was answered with, and the id, the creation time
\* in nanoseconds, the size and the readiness of the snapshot its own
\* CreateSnapshot request was answered with, whatever the calls running
\* beside it receive.
C15_OwnResponses ==
    (Returned /\ last.op = "CreateSnapshot" /\ last.err = Nil /\ ~last.panicked)
        => /\ last.sent = <<"GetPluginInfo", "CreateSnapshot">>
           /\ last.ret.driverName = last.info.name
           /\ last.ret.snapshotId = last.reply.SnapshotId
           /\ last.ret.timestamp = ExactNanos(last.reply.CreationTime)
           /\ last.ret.size = last.reply.SizeBytes
           /\ last.ret.readyToUse = last.reply.ReadyToUse

\* C16: an operation whose request failed returns exactly the error the
\* transport gave; Probe and DeleteSnapshot return no error exactly when
\* their request succeeded; and the interceptor changes nothing: the request
\* that went out is the operation's own, the error that comes back is the
\* invoker's, and a driver name that was received is the one returned.
C16_ErrorVerbatim ==
    Returned =>
        /\ last.transport # Nil => last.err = last.transport
        /\ last.op \in {"Probe", "DeleteSnapshot"}
            => /\ last.err = last.transport
               /\ (last.err = Nil <=> last.transport = Nil)
        /\ last.sent # <<>> => last.sent[1] = Method(last.op)
        /\ last.op = "GetDriverName" /\ last.err = Nil => last.ret = last.reply

C16_Witness ==
    /\ Returned
    /\ last.op = "Probe"
    /\ last.transport = ErrUnavailable
    /\ last.err = ErrUnavailable

\* the capability a query looks for
Wanted(op) ==
    IF op = "SupportsControllerCreateSnapshot" THEN "CREATE_DELETE_SNAPSHOT"
    ELSE "LIST_SNAPSHOTS"

\* C17: a capability query never gives a stale answer.  Each query has sent
\* its own ControllerGetCapabilities request; its answer is that of the list
\* this request was answered with, whatever the query before it returned,
\* and no answer is given when the request failed.
C17_NeverStale ==
    (Returned /\ last.op \in {"SupportsControllerCreateSnapshot",
                              "SupportsControllerListSnapshots"})
        => /\ last.sent = <<"ControllerGetCapabilities">>
           /\ last.err = Nil
               => /\ last.transport = Nil
                  /\ last.ret <=> Carries(last.reply, Wanted(last.op))
           /\ last.err # Nil => last.ret = FALSE /\ last.transport # Nil

\* C17 witness: the query before returned true, the driver's list has
\* changed, and this query returns false.
C17_Witness ==
    /\ prev = "supported"
    /\ Returned
    /\ last.op = "SupportsControllerCreateSnapshot"
    /\ last.reply = <<"LIST_SNAPSHOTS">>
    /\ last.err = Nil
    /\ last.ret = FALSE

\* C18: a GetSnapshotStatus whose list has one entry or more answers from
\* the first entry alone: with a snapshot in the first entry it returns that
\* snapshot's readiness, creation time and size, or the error of that
\* snapshot's creation time, and nothing in a later entry changes the result
\* or makes the call fail.
C18_FirstEntryOnly ==
    (Returned /\ last.op = "GetSnapshotStatus" /\ last.transport = Nil
     /\ Len(last.reply) >= 1 /\ last.reply[1].Snapshot.present)
        => LET first == last.reply[1].Snapshot
               time == timestampToUnixTime(first.CreationTime)
           IN /\ ~last.panicked
              /\ last.err = time.err
              /\ last.err = Nil
                  => last.ret = [readyToUse |-> first.ReadyToUse,
                                 timestamp |-> time.time,
                                 size |-> first.SizeBytes]

\* C18 witness: the second entry has no snapshot at all and the call returns
\* the first entry's status.
C18_Witness ==
    /\ Returned
    /\ last.op = "GetSnapshotStatus"
    /\ Len(last.reply) = 2
    /\ last.reply[1] = Entry(Snap("snap-2", Ts(2, 0), 0, FALSE))
    /\ last.reply[2] = Entry(NilSnapshot)
    /\ last.err = Nil
    /\ last.ret = [readyToUse |-> FALSE, timestamp |-> 2 * NanosPerSecond,
                   size |-> 0]

\* the result a call has by its own arguments and the answers to its own
\* requests: rec.vol, rec.info (the answer to GetPluginInfo inside
\* CreateSnapshot), rec.reply and rec.transport (the answer to its last
\* request), and for Close whether the channel was closed before
OwnResult(rec) ==
    CASE rec.op = "GetDriverName" ->
            IF rec.transport # Nil THEN rec.err = rec.transport /\ rec.ret = ""
            ELSE IF rec.reply = "" THEN rec.err = ErrNameEmpty /\ rec.ret = ""
            ELSE rec.err = Nil /\ rec.ret = rec.reply
      [] rec.op \in {"Probe", "DeleteSnapshot"} -> rec.err = rec.transport
      [] rec.op \in {"SupportsControllerCreateSnapshot",
                     "SupportsControllerListSnapshots"} ->
            IF rec.transport # Nil THEN rec.err = rec.transport /\ rec.ret = FALSE
            ELSE rec.err = Nil /\ (rec.ret <=> Carries(rec.reply, Wanted(rec.op)))
      [] rec.op = "GetSnapshotStatus" ->
            IF rec.transport # Nil
            THEN rec.err = rec.transport /\ rec.ret = ZeroStatus
            ELSE IF rec.reply = <<>>
            THEN rec.err = ErrNotFound /\ rec.ret = ZeroStatus
            ELSE IF ~rec.reply[1].Snapshot.present THEN rec.panicked
            ELSE LET first == rec.reply[1].Snapshot
                     time == timestampToUnixTime(first.CreationTime)
                 IN IF time.err # Nil
                    THEN rec.err = time.err /\ rec.ret = ZeroStatus
                    ELSE /\ rec.err = Nil
                         /\ rec.ret = [readyToUse |-> first.ReadyToUse,
                                       timestamp |-> time.time,
                                       size |-> first.SizeBytes]
      [] rec.op = "CreateSnapshot" ->
            IF rec.vol = "nilVolume" THEN rec.panicked
            ELSE IF rec.vol = "noCSI"
            THEN rec.err = ErrNoCSI /\ rec.ret = ZeroSnapshot
            ELSE IF rec.info.err # Nil
            THEN rec.err = rec.info.err /\ rec.ret = ZeroSnapshot
            ELSE IF rec.info.name = ""
            THEN rec.err = ErrNameEmpty /\ rec.ret = ZeroSnapshot
            ELSE IF rec.transport # Nil
            THEN rec.err = rec.transport /\ rec.ret = ZeroSnapshot
            ELSE IF ~rec.reply.present THEN rec.panicked
            ELSE LET time == timestampToUnixTime(rec.reply.CreationTime)
                 IN IF time.err # Nil
                    THEN rec.err = time.err /\ rec.ret = ZeroSnapshot
                    ELSE /\ rec.err = Nil
                         /\ rec.ret = [driverName |-> rec.info.name,
                                       snapshotId |-> rec.reply.SnapshotId,
                                       timestamp |-> time.time,
                                       size |-> rec.reply.SizeBytes,
                                       readyToUse |-> rec.reply.ReadyToUse]
      [] rec.op = "Close" ->
            rec.err = (IF rec.afterClose THEN ErrClosing ELSE Nil)

\* C19: the facade keeps no state between calls.  Whatever ran before, the
\* result of every call is the one fixed by its own arguments and by the
\* answers to the requests it sent itself (for Close, by the channel having
\* been closed before or not).
C19_StatelessPerCall == Returned => OwnResult(last)

\* C19 witness: after a call that was cancelled, a GetDriverName that is
\* answered returns the name it received.
C19_Witness ==
    /\ prev = "cancelled"
    /\ Returned
    /\ last.op = "GetDriverName"
    /\ last.reply = "csi.other"
    /\ last.ret = "csi.other"
    /\ last.err = Nil

\* the zero value of an operation's results
Zero(op) ==
    CASE op = "GetDriverName" -> ""
      [] op \in {"SupportsControllerCreateSnapshot",
                 "SupportsControllerListSnapshots"} -> FALSE
      [] op = "CreateSnapshot" -> ZeroSnapshot
      [] op = "GetSnapshotStatus" -> ZeroStatus

\* C20: an operation that returns an error returns the zero value in every
\* other result: "" from GetDriverName, false from the capability queries,
\* ("", "", 0, 0, false) from CreateSnapshot and (false, 0, 0) from
\* GetSnapshotStatus.
C20_ErrorMeansZero ==
    (Returned /\ ~last.panicked /\ last.err # Nil
     /\ last.op \in {"GetDriverName", "SupportsControllerCreateSnapshot",
                     "SupportsControllerListSnapshots", "CreateSnapshot",
                     "GetSnapshotStatus"})
        => last.ret = Zero(last.op)

\* C20 witness: CreateSnapshot has the driver's name and a snapshot with an
\* id, fails on the snapshot's creation time and returns none of them.
C20_Witness ==
    /\ Returned
    /\ last.op = "CreateSnapshot"
    /\ last.info.name = "csi.example.com"
    /\ last.reply.SnapshotId = "snap-xyz"
    /\ last.err = ErrTimestamp
    /\ last.ret = ZeroSnapshot

====
